---------------------------- MODULE Spec2Model ----------------------------
(***************************************************************************)
(* A model of the Paystream contract (contract/src/lib.rs): the            *)
(* subscription ledger with its per-account index lists, settlement,       *)
(* transfer of settled value between persisted balances, and the projected *)
(* balance returned by ft_balance_of.                                      *)
(*                                                                         *)
(* Every entry point runs as one atomic step.  A panic (require!, unwrap,  *)
(* expect) aborts the invocation and the host discards every write of it,  *)
(* so a failed call leaves the contract state as it was; only the          *)
(* observation record `last` tells that the call was made.                 *)
(***************************************************************************)
EXTENDS Integers, Sequences, FiniteSets, TLC

(***************************************************************************)
(* Bounds of the model.                                                    *)
(***************************************************************************)
\* Balance and YoctosPerSecond are u128; the model keeps the width but scales
\* it down, so that u128::MAX is U128Max and saturation can be reached.
U128Max == 6
\* SubscriptionIndex is u64; wrapping_add is taken modulo U64Modulus.
U64Modulus == 8
\* The clock (env::block_timestamp) runs from 0 to MaxTime.
MaxTime == 2
\* At most MaxCreates subscriptions are created in a run.
MaxCreates == 2
\* Flows offered to create_subscription and update_subscription: 0..MaxFlow.
MaxFlow == 2

\* The amount credited by one wrap_callback: more than half of u128::MAX, so that
\* two deposits saturate one balance.
DepositAmount == (U128Max \div 2) + 1
\* wrap_callback is taken while the persisted total stays within MaxSupply.
MaxSupply == 2 * DepositAmount

\* The accounts that sign calls and hold balances.
Accounts == {"alice", "bob", "carol"}
\* The accounts offered to create_subscription as source and destination.
Parties == {"alice", "bob"}
Flows == 0..MaxFlow
\* The values offered to update_reserve.
Reserves == {1}

(***************************************************************************)
(* Program constants.                                                      *)
(***************************************************************************)
\* reserve: 4 * 60 * 60 seconds, set by Paystream::new
InitialReserve == 14400

VARIABLES
    balances,            \* Paystream.balances: LookupMap<AccountId, Balance>
    owner,               \* Paystream.owner
    treasurer,           \* Paystream.treasurer
    reserve,             \* Paystream.reserve
    subscription_index,  \* Subscriptions.subscription_index
    subscriptions,       \* Subscriptions.subscriptions: LookupMap<index, Subscription>
    outputs,             \* Subscriptions.outputs: LookupMap<AccountId, Vec<index>>
    inputs,              \* Subscriptions.inputs: LookupMap<AccountId, Vec<index>>
    now,                 \* env::block_timestamp()
    settled,             \* history: id -> time of its creation or latest successful update
    created,             \* history: id -> time of its creation
    creates,             \* history: how many create_subscription calls have returned
    last                 \* observation of the latest call that returned

vars == <<balances, owner, treasurer, reserve, subscription_index, subscriptions,
          outputs, inputs, now, settled, created, creates, last>>

state == <<balances, owner, treasurer, reserve, subscription_index, subscriptions,
           outputs, inputs>>

(***************************************************************************)
(* LookupMap: a function whose domain is the set of keys present.          *)
(***************************************************************************)
EmptyMap == [k \in {} |-> 0]

Insert(map, key, value) ==
    [k \in DOMAIN map \cup {key} |-> IF k = key THEN value ELSE map[k]]

Remove(map, key) == [k \in DOMAIN map \ {key} |-> map[k]]

\* LookupMap::get(..).unwrap_or_default() for a Vec value
GetOrEmpty(map, key) == IF key \in DOMAIN map THEN map[key] ELSE <<>>

\* LookupMap::get(..).unwrap_or_default() for a Balance value
GetOrZero(map, key) == IF key \in DOMAIN map THEN map[key] ELSE 0

(***************************************************************************)
(* Integer arithmetic of the source.                                       *)
(***************************************************************************)
SaturatingMul(a, b) == IF a * b > U128Max THEN U128Max ELSE a * b

SaturatingAdd(a, b) == IF a + b > U128Max THEN U128Max ELSE a + b

SaturatingSub(a, b) == IF a < b THEN 0 ELSE a - b

WrappingAdd(a, b) == (a + b) % U64Modulus

(***************************************************************************)
(* Subscription                                                            *)
(***************************************************************************)
NoSubscription == [source |-> "none", destination |-> "none", flow |-> 0, timestamp |-> 0]

\* Subscription::settle: the amount accrued since the record's timestamp
SettleAmount(subscription, timestamp) ==
    SaturatingMul(SaturatingSub(timestamp, subscription.timestamp), subscription.flow)

\* Subscription::settle: the record after settling, its timestamp advanced
Settle(subscription, timestamp) == [subscription EXCEPT !.timestamp = timestamp]

(***************************************************************************)
(* Subscriptions: the ledger.  `self` is the record                        *)
(* [subscription_index, subscriptions, outputs, inputs].                   *)
(***************************************************************************)
\* create that takes the counter as the id and does not advance it
create_without_increment(self, source, destination, flow, timestamp) ==
    LET index == self.subscription_index
        subscription == [source |-> source, destination |-> destination,
                         flow |-> flow, timestamp |-> timestamp]
    IN [self |-> [subscription_index |-> index,
                  subscriptions |-> Insert(self.subscriptions, index, subscription),
                  inputs |-> Insert(self.inputs, destination,
                                    Append(GetOrEmpty(self.inputs, destination), index)),
                  outputs |-> Insert(self.outputs, source,
                                     Append(GetOrEmpty(self.outputs, source), index))],
        ret |-> subscription]

\* create that stores the record under the old counter value, not the new id
create_at_old_index(self, source, destination, flow, timestamp) ==
    LET index == WrappingAdd(self.subscription_index, 1)
        subscription == [source |-> source, destination |-> destination,
                         flow |-> flow, timestamp |-> timestamp]
    IN [self |-> [subscription_index |-> index,
                  subscriptions |-> Insert(self.subscriptions,
                                           self.subscription_index, subscription),
                  inputs |-> Insert(self.inputs, destination,
                                    Append(GetOrEmpty(self.inputs, destination), index)),
                  outputs |-> Insert(self.outputs, source,
                                     Append(GetOrEmpty(self.outputs, source), index))],
        ret |-> subscription]

\* Subscriptions::create
create(self, source, destination, flow, timestamp) ==
    LET index == WrappingAdd(self.subscription_index, 1)
        subscription == [source |-> source, destination |-> destination,
                         flow |-> flow, timestamp |-> timestamp]
    IN [self |-> [subscription_index |-> index,
                  subscriptions |-> Insert(self.subscriptions, index, subscription),
                  inputs |-> Insert(self.inputs, destination,
                                    Append(GetOrEmpty(self.inputs, destination), index)),
                  outputs |-> Insert(self.outputs, source,
                                     Append(GetOrEmpty(self.outputs, source), index))],
        ret |-> subscription]

\* Subscriptions::exists
exists(self, subscription_index_) == subscription_index_ \in DOMAIN self.subscriptions

\* Subscriptions::try_get
try_get(self, subscription_index_) ==
    IF subscription_index_ \in DOMAIN self.subscriptions
    THEN [ok |-> TRUE, err |-> "", ret |-> self.subscriptions[subscription_index_]]
    ELSE [ok |-> FALSE, err |-> "NotPresent", ret |-> NoSubscription]

\* Subscriptions::try_remove
try_remove(self, subscription_index_) ==
    IF subscription_index_ \notin DOMAIN self.subscriptions
    THEN [ok |-> FALSE, err |-> "NotPresent", self |-> self, ret |-> NoSubscription]
    ELSE
      LET subscription == self.subscriptions[subscription_index_]
          retained(list) == SelectSeq(list, LAMBDA x : x = subscription_index_)
          inputs_ == IF subscription.source \in DOMAIN self.inputs
                     THEN Insert(self.inputs, subscription.source,
                                 retained(self.inputs[subscription.source]))
                     ELSE self.inputs
          outputs_ == IF subscription.destination \in DOMAIN self.outputs
                      THEN Insert(self.outputs, subscription.source,
                                  retained(self.outputs[subscription.destination]))
                      ELSE self.outputs
      IN [ok |-> TRUE, err |-> "",
          self |-> [subscription_index |-> self.subscription_index,
                    subscriptions |-> Remove(self.subscriptions, subscription_index_),
                    inputs |-> inputs_,
                    outputs |-> outputs_],
          ret |-> subscription]

\* Subscriptions::subscriptions_for_account
subscriptions_for_account(self, account_id) ==
    GetOrEmpty(self.inputs, account_id) \o GetOrEmpty(self.outputs, account_id)

\* try_update with the result of the insert ignored: no InternalError
try_update_unchecked(self, subscription_index_, new_flow) ==
    IF subscription_index_ \notin DOMAIN self.subscriptions
    THEN [ok |-> FALSE, err |-> "NotPresent", self |-> self, ret |-> NoSubscription]
    ELSE
      LET old == self.subscriptions[subscription_index_]
          subscription == [old EXCEPT !.flow = new_flow]
          written == [self EXCEPT !.subscriptions =
                          Insert(self.subscriptions, self.subscription_index, subscription)]
      IN IF old.flow = new_flow
         THEN [ok |-> FALSE, err |-> "InvalidFlow", self |-> self, ret |-> NoSubscription]
         ELSE [ok |-> TRUE, err |-> "", self |-> written, ret |-> subscription]

\* try_update without the InvalidFlow check
try_update_same_flow(self, subscription_index_, new_flow) ==
    IF subscription_index_ \notin DOMAIN self.subscriptions
    THEN [ok |-> FALSE, err |-> "NotPresent", self |-> self, ret |-> NoSubscription]
    ELSE
      LET old == self.subscriptions[subscription_index_]
          subscription == [old EXCEPT !.flow = new_flow]
          written == [self EXCEPT !.subscriptions =
                          Insert(self.subscriptions, self.subscription_index, subscription)]
      IN IF self.subscription_index \notin DOMAIN self.subscriptions
         THEN [ok |-> FALSE, err |-> "InternalError", self |-> written,
               ret |-> NoSubscription]
         ELSE [ok |-> TRUE, err |-> "", self |-> written, ret |-> subscription]

\* Subscriptions::try_update
try_update(self, subscription_index_, new_flow) ==
    IF subscription_index_ \notin DOMAIN self.subscriptions
    THEN [ok |-> FALSE, err |-> "NotPresent", self |-> self, ret |-> NoSubscription]
    ELSE
      LET old == self.subscriptions[subscription_index_]
          subscription == [old EXCEPT !.flow = new_flow]
          written == [self EXCEPT !.subscriptions =
                          Insert(self.subscriptions, self.subscription_index, subscription)]
      IN IF old.flow = new_flow
         THEN [ok |-> FALSE, err |-> "InvalidFlow", self |-> self, ret |-> NoSubscription]
         ELSE IF self.subscription_index \notin DOMAIN self.subscriptions
         THEN [ok |-> FALSE, err |-> "InternalError", self |-> written,
               ret |-> NoSubscription]
         ELSE [ok |-> TRUE, err |-> "", self |-> written, ret |-> subscription]

(***************************************************************************)
(* Paystream                                                               *)
(***************************************************************************)
\* sufficient_reserve that accepts a balance equal to the minimum
sufficient_reserve_at_least(balances_, reserve_, rate, account_id) ==
    /\ account_id \in DOMAIN balances_
    /\ balances_[account_id] >= SaturatingMul(rate, reserve_)

\* Paystream::sufficient_reserve: TRUE when neither the expect nor the require panics
sufficient_reserve(balances_, reserve_, rate, account_id) ==
    /\ account_id \in DOMAIN balances_
    /\ balances_[account_id] > SaturatingMul(rate, reserve_)

\* try_transfer with the debit clamped at zero where the source checks it
try_transfer_clamped(balances_, source, destination, amount) ==
    IF source \notin DOMAIN balances_
    THEN [ok |-> FALSE, err |-> "source doesn't exist", balances |-> balances_]
    ELSE LET debited == Insert(balances_, source,
                               SaturatingSub(balances_[source], amount))
         IN [ok |-> TRUE, err |-> "",
             balances |-> Insert(debited, destination,
                                 IF destination \in DOMAIN debited
                                 THEN SaturatingAdd(debited[destination], amount)
                                 ELSE amount)]

\* Paystream::try_transfer
try_transfer(balances_, source, destination, amount) ==
    IF source \notin DOMAIN balances_
    THEN [ok |-> FALSE, err |-> "source doesn't exist", balances |-> balances_]
    ELSE IF balances_[source] < amount
    THEN [ok |-> FALSE, err |-> "insufficient balance", balances |-> balances_]
    ELSE LET debited == Insert(balances_, source, balances_[source] - amount)
         IN [ok |-> TRUE, err |-> "",
             balances |-> Insert(debited, destination,
                                 IF destination \in DOMAIN debited
                                 THEN SaturatingAdd(debited[destination], amount)
                                 ELSE amount)]

\* Paystream::current_balance, the closure yoctos_per_second
yoctos_per_second(subscription, timestamp) ==
    SaturatingMul(SaturatingSub(timestamp, subscription.timestamp), subscription.flow)

\* Paystream::current_balance, the loop over inputs[account_id]
RECURSIVE add_inputs(_, _, _, _)
add_inputs(balance, list, self, timestamp) ==
    IF list = <<>> THEN balance
    ELSE add_inputs(IF Head(list) \in DOMAIN self.subscriptions
                    THEN SaturatingAdd(balance,
                             yoctos_per_second(self.subscriptions[Head(list)], timestamp))
                    ELSE balance,
                    Tail(list), self, timestamp)

\* Paystream::current_balance, the loop over outputs[account_id]
RECURSIVE sub_outputs(_, _, _, _)
sub_outputs(balance, list, self, timestamp) ==
    IF list = <<>> THEN balance
    ELSE sub_outputs(IF Head(list) \in DOMAIN self.subscriptions
                     THEN SaturatingSub(balance,
                              yoctos_per_second(self.subscriptions[Head(list)], timestamp))
                     ELSE balance,
                     Tail(list), self, timestamp)

\* Paystream::current_balance
current_balance(balances_, self, timestamp, account_id) ==
    sub_outputs(add_inputs(GetOrZero(balances_, account_id),
                           GetOrEmpty(self.inputs, account_id), self, timestamp),
                GetOrEmpty(self.outputs, account_id), self, timestamp)

\* Paystream::ft_balance_of
ft_balance_of(balances_, self, timestamp, account_id) ==
    current_balance(balances_, self, timestamp, account_id)

\* The ledger of the current state, as the Subscriptions value `self`
ledger ==
    [subscription_index |-> subscription_index, subscriptions |-> subscriptions,
     outputs |-> outputs, inputs |-> inputs]

\* The result of an entry point that panics: every write is discarded
Panic(balances_, self, err) ==
    [ok |-> FALSE, err |-> err, balances |-> balances_, self |-> self,
     ret |-> NoSubscription, amount |-> 0]

\* a balance query that settles the subscriptions it walks over, advancing
\* their timestamps in the ledger
ft_balance_of_settling(balances_, self, timestamp, account_id) ==
    LET list == subscriptions_for_account(self, account_id)
        walked == {list[k] : k \in 1..Len(list)}
    IN [ok |-> TRUE, err |-> "", balances |-> balances_,
        self |-> [self EXCEPT !.subscriptions =
                      [i \in DOMAIN self.subscriptions |->
                          IF i \in walked
                          THEN Settle(self.subscriptions[i], timestamp)
                          ELSE self.subscriptions[i]]],
        ret |-> NoSubscription,
        amount |-> ft_balance_of(balances_, self, timestamp, account_id)]

\* Paystream::ft_balance_of as a call: the receiver is &self and
\* current_balance only reads, so the contract state comes back as it was
ft_balance_of_view(balances_, self, timestamp, account_id) ==
    [ok |-> TRUE, err |-> "", balances |-> balances_, self |-> self,
     ret |-> NoSubscription,
     amount |-> ft_balance_of(balances_, self, timestamp, account_id)]

\* create_subscription without the check that source is not destination
create_subscription_to_self(balances_, self, reserve_, timestamp, signer, source, destination, rate) ==
    IF ~(rate > 0)
    THEN Panic(balances_, self, "rate needs to be greater than zero")
    ELSE IF source # signer
    THEN Panic(balances_, self, "signer must be source")
    ELSE IF source \notin DOMAIN balances_
    THEN Panic(balances_, self, "that source has balance")
    ELSE IF ~sufficient_reserve(balances_, reserve_, rate, source)
    THEN Panic(balances_, self, "sufficient reserve is required")
    ELSE LET c == create(self, source, destination, rate, timestamp)
         IN [ok |-> TRUE, err |-> "", balances |-> balances_, self |-> c.self,
             ret |-> c.ret, amount |-> 0]

\* Paystream::create_subscription
create_subscription(balances_, self, reserve_, timestamp, signer, source, destination, rate) ==
    IF ~(rate > 0)
    THEN Panic(balances_, self, "rate needs to be greater than zero")
    ELSE IF source # signer
    THEN Panic(balances_, self, "signer must be source")
    ELSE IF source = destination
    THEN Panic(balances_, self, "source must not be destination")
    ELSE IF source \notin DOMAIN balances_
    THEN Panic(balances_, self, "that source has balance")
    ELSE IF ~sufficient_reserve(balances_, reserve_, rate, source)
    THEN Panic(balances_, self, "sufficient reserve is required")
    ELSE LET c == create(self, source, destination, rate, timestamp)
         IN [ok |-> TRUE, err |-> "", balances |-> balances_, self |-> c.self,
             ret |-> c.ret, amount |-> 0]

\* remove_subscription without the check of the signer
remove_subscription_by_anyone(balances_, self, timestamp, signer, subscription_index_) ==
    LET got == try_get(self, subscription_index_)
        removed == try_remove(self, subscription_index_)
        amount == SettleAmount(removed.ret, timestamp)
        subscription == Settle(removed.ret, timestamp)
        transfer == try_transfer(balances_, subscription.source,
                                 subscription.destination, amount)
    IN IF ~got.ok
       THEN Panic(balances_, self, "NotPresent")
       ELSE IF ~removed.ok
       THEN Panic(balances_, self, "subscription is removed")
       ELSE IF ~transfer.ok
       THEN Panic(balances_, self, "transfer on settlement")
       ELSE [ok |-> TRUE, err |-> "", balances |-> transfer.balances,
             self |-> removed.self, ret |-> subscription, amount |-> amount]

\* Paystream::remove_subscription
remove_subscription(balances_, self, timestamp, signer, subscription_index_) ==
    LET got == try_get(self, subscription_index_)
        removed == try_remove(self, subscription_index_)
        amount == SettleAmount(removed.ret, timestamp)
        subscription == Settle(removed.ret, timestamp)
        transfer == try_transfer(balances_, subscription.source,
                                 subscription.destination, amount)
    IN IF ~got.ok
       THEN Panic(balances_, self, "NotPresent")
       ELSE IF ~(got.ret.source = signer \/ got.ret.destination = signer)
       THEN Panic(balances_, self, "signer must be source or destination")
       ELSE IF ~removed.ok
       THEN Panic(balances_, self, "subscription is removed")
       ELSE IF ~transfer.ok
       THEN Panic(balances_, self, "transfer on settlement")
       ELSE [ok |-> TRUE, err |-> "", balances |-> transfer.balances,
             self |-> removed.self, ret |-> subscription, amount |-> amount]

\* Paystream::get_subscription
get_subscription(self, subscription_index_) == try_get(self, subscription_index_)

\* update_subscription that carries on when the transfer fails
update_subscription_ignoring_transfer(balances_, self, timestamp, subscription_index_, new_flow) ==
    LET got == try_get(self, subscription_index_)
        amount == SettleAmount(got.ret, timestamp)
        transfer == try_transfer(balances_, got.ret.source, got.ret.destination, amount)
        updated == try_update(self, subscription_index_, new_flow)
    IN IF ~got.ok
       THEN Panic(balances_, self, "NotPresent")
       ELSE IF ~updated.ok
       THEN Panic(balances_, self, updated.err)
       ELSE [ok |-> TRUE, err |-> "", balances |-> transfer.balances,
             self |-> updated.self, ret |-> updated.ret, amount |-> amount]

\* Paystream::update_subscription
update_subscription(balances_, self, timestamp, subscription_index_, new_flow) ==
    LET got == try_get(self, subscription_index_)
        amount == SettleAmount(got.ret, timestamp)
        transfer == try_transfer(balances_, got.ret.source, got.ret.destination, amount)
        updated == try_update(self, subscription_index_, new_flow)
    IN IF ~got.ok
       THEN Panic(balances_, self, "NotPresent")
       ELSE IF ~transfer.ok
       THEN Panic(balances_, self, transfer.err)
       ELSE IF ~updated.ok
       THEN Panic(balances_, self, updated.err)
       ELSE [ok |-> TRUE, err |-> "", balances |-> transfer.balances,
             self |-> updated.self, ret |-> updated.ret, amount |-> amount]

\* Paystream::wrap_callback, PromiseResult::Successful
wrap_callback(balances_, account_id, amount) ==
    Insert(balances_, account_id,
           IF account_id \in DOMAIN balances_
           THEN SaturatingAdd(balances_[account_id], amount)
           ELSE amount)

\* The sum of the persisted balances
RECURSIVE TotalOf(_, _)
TotalOf(balances_, accounts) ==
    IF accounts = {} THEN 0
    ELSE LET a == CHOOSE x \in accounts : TRUE
         IN GetOrZero(balances_, a) + TotalOf(balances_, accounts \ {a})

\* required with no comparison: any signer passes
required_anyone(signer, account_id) == TRUE

\* Permission::required: TRUE when the require does not panic
required(signer, account_id) == signer = account_id

\* Paystream::set_owner
set_owner(owner_, signer, new_owner) ==
    IF ~required(signer, owner_)
    THEN [ok |-> FALSE, err |-> "Permission required", owner |-> owner_]
    ELSE IF ~(new_owner # owner_)
    THEN [ok |-> FALSE, err |-> "should be new owner", owner |-> owner_]
    ELSE [ok |-> TRUE, err |-> "", owner |-> new_owner]

\* Paystream::set_treasurer
set_treasurer(owner_, treasurer_, signer, new_treasurer) ==
    IF ~required(signer, owner_)
    THEN [ok |-> FALSE, err |-> "Permission required", treasurer |-> treasurer_]
    ELSE IF ~(new_treasurer # treasurer_)
    THEN [ok |-> FALSE, err |-> "should be new treasurer", treasurer |-> treasurer_]
    ELSE [ok |-> TRUE, err |-> "", treasurer |-> new_treasurer]

\* Paystream::update_reserve
update_reserve(owner_, reserve_, signer, new_reserve) ==
    IF ~required(signer, owner_)
    THEN [ok |-> FALSE, err |-> "Permission required", reserve |-> reserve_]
    ELSE [ok |-> TRUE, err |-> "", reserve |-> new_reserve]

(***************************************************************************)
(* The state machine                                                       *)
(***************************************************************************)
\* What the latest call that returned was given and what it returned
Observation(op, signer, id, flow, ret, amount) ==
    [op |-> op, signer |-> signer, id |-> id, flow |-> flow, ret |-> ret,
     amount |-> amount]

\* Paystream::new
Init ==
    /\ balances = EmptyMap
    /\ owner = "alice"
    /\ treasurer = "alice"
    /\ reserve = InitialReserve
    /\ subscription_index = 0
    /\ subscriptions = EmptyMap
    /\ outputs = EmptyMap
    /\ inputs = EmptyMap
    /\ now = 0
    /\ settled = EmptyMap
    /\ created = EmptyMap
    /\ creates = 0
    /\ last = Observation("new", "alice", 0, 0, NoSubscription, 0)

\* The writes of a call whose result is r
Commit(r) ==
    /\ balances' = r.balances
    /\ subscription_index' = r.self.subscription_index
    /\ subscriptions' = r.self.subscriptions
    /\ outputs' = r.self.outputs
    /\ inputs' = r.self.inputs

\* A call that panics writes nothing, so it is no step of the machine: each
\* action below is the handler running to its normal return.
CreateSubscription(signer, source, destination, rate) ==
    /\ subscription_index < MaxCreates
    /\ LET r == create_subscription(balances, ledger, reserve, now,
                                    signer, source, destination, rate)
       IN /\ r.ok
          /\ Commit(r)
          /\ settled' = Insert(settled, r.self.subscription_index, now)
          /\ created' = Insert(created, r.self.subscription_index, now)
          /\ creates' = creates + 1
          /\ last' = Observation("create_subscription", signer,
                                 r.self.subscription_index, rate, r.ret, r.amount)
    /\ UNCHANGED <<owner, treasurer, reserve, now>>

RemoveSubscription(signer, subscription_index_) ==
    /\ LET r == remove_subscription(balances, ledger, now, signer, subscription_index_)
       IN /\ r.ok
          /\ Commit(r)
          /\ last' = Observation("remove_subscription", signer, subscription_index_,
                                 0, r.ret, r.amount)
    /\ UNCHANGED <<owner, treasurer, reserve, now, settled, created, creates>>

UpdateSubscription(signer, subscription_index_, new_flow) ==
    /\ LET r == update_subscription(balances, ledger, now, subscription_index_, new_flow)
       IN /\ r.ok
          /\ Commit(r)
          /\ settled' = Insert(settled, subscription_index_, now)
          /\ last' = Observation("update_subscription", signer, subscription_index_,
                                 new_flow, r.ret, r.amount)
    /\ UNCHANGED <<owner, treasurer, reserve, now, created, creates>>

\* Paystream::wrap_callback; PromiseResult::Failed only logs
WrapCallback(account_id, successful) ==
    /\ TotalOf(balances, Accounts) + DepositAmount <= MaxSupply
    /\ balances' = IF successful THEN wrap_callback(balances, account_id, DepositAmount)
                   ELSE balances
    /\ last' = IF successful
               THEN Observation("wrap_callback", account_id, 0, 0, NoSubscription,
                                DepositAmount)
               ELSE last
    /\ UNCHANGED <<owner, treasurer, reserve, subscription_index, subscriptions, outputs, inputs,
                   now, settled, created, creates>>

\* Paystream::update_reserve
UpdateReserve(signer, reserve_) ==
    /\ LET r == update_reserve(owner, reserve, signer, reserve_)
       IN /\ r.ok
          /\ reserve' = r.reserve
    /\ last' = Observation("update_reserve", signer, 0, 0, NoSubscription, 0)
    /\ UNCHANGED <<balances, owner, treasurer, subscription_index, subscriptions, outputs, inputs,
                   now, settled, created, creates>>

\* The host's clock advances between invocations
Tick ==
    /\ now < MaxTime
    /\ now' = now + 1
    /\ last' = Observation("tick", "", 0, 0, NoSubscription, 0)
    /\ UNCHANGED <<state, settled, created, creates>>

Ids == 1..MaxCreates

Next ==
    \/ \E signer \in Accounts, source \in Parties, destination \in Parties, rate \in Flows :
          CreateSubscription(signer, source, destination, rate)
    \/ \E signer \in Accounts, i \in Ids : RemoveSubscription(signer, i)
    \/ \E signer \in Accounts, i \in Ids, new_flow \in Flows :
          UpdateSubscription(signer, i, new_flow)
    \/ \E account_id \in Accounts, successful \in BOOLEAN :
          WrapCallback(account_id, successful)
    \/ \E signer \in Accounts, reserve_ \in Reserves : UpdateReserve(signer, reserve_)
    \/ Tick

Spec == Init /\ [][Next]_vars

\* The balance query as a step: `last` records the account asked about (in
\* the field signer) and the value returned (in the field amount)
FtBalanceOf(account_id) ==
    /\ LET r == ft_balance_of_view(balances, ledger, now, account_id)
       IN /\ Commit(r)
          /\ last' = Observation("ft_balance_of", account_id, 0, 0, r.ret, r.amount)
    /\ UNCHANGED <<owner, treasurer, reserve, now, settled, created, creates>>

\* The calls with balance queries of every account interleaved.  To leave room
\* for the queries, deposits go to the two parties only and alice, who is a
\* party of every subscription, signs the updates and removals.
NextQuery ==
    \/ \E source \in Parties, destination \in Parties, rate \in Flows :
          CreateSubscription(source, source, destination, rate)
    \/ \E i \in Ids : RemoveSubscription("alice", i)
    \/ \E i \in Ids, new_flow \in Flows : UpdateSubscription("alice", i, new_flow)
    \/ \E account_id \in Parties, successful \in BOOLEAN :
          WrapCallback(account_id, successful)
    \/ \E reserve_ \in Reserves : UpdateReserve(owner, reserve_)
    \/ Tick
    \/ \E account_id \in Accounts : FtBalanceOf(account_id)

SpecQuery == Init /\ [][NextQuery]_vars

\* Paystream::set_owner
SetOwner(signer, new_owner) ==
    /\ LET r == set_owner(owner, signer, new_owner)
       IN /\ r.ok
          /\ owner' = r.owner
    /\ last' = Observation("set_owner", signer, 0, 0, NoSubscription, 0)
    /\ UNCHANGED <<balances, treasurer, reserve, subscription_index, subscriptions,
                   outputs, inputs, now, settled, created, creates>>

\* Paystream::set_treasurer
SetTreasurer(signer, new_treasurer) ==
    /\ LET r == set_treasurer(owner, treasurer, signer, new_treasurer)
       IN /\ r.ok
          /\ treasurer' = r.treasurer
    /\ last' = Observation("set_treasurer", signer, 0, 0, NoSubscription, 0)
    /\ UNCHANGED <<balances, owner, reserve, subscription_index, subscriptions,
                   outputs, inputs, now, settled, created, creates>>

\* The calls of the owner's configuration, with deposits and the creation of
\* subscriptions from alice to bob going on beside them
NextAdmin ==
    \/ \E signer \in Accounts, new_owner \in Accounts : SetOwner(signer, new_owner)
    \/ \E signer \in Accounts, new_treasurer \in Accounts :
          SetTreasurer(signer, new_treasurer)
    \/ \E signer \in Accounts, reserve_ \in Reserves : UpdateReserve(signer, reserve_)
    \/ \E rate \in Flows : CreateSubscription("alice", "alice", "bob", rate)
    \/ \E successful \in BOOLEAN : WrapCallback("alice", successful)
    \/ Tick

\* The machine with the owner and the treasurer changing
SpecAdmin == Init /\ [][NextAdmin]_vars

(***************************************************************************)
(* Helpers of the properties                                               *)
(***************************************************************************)
\* How many times id occurs in list
Count(list, id) == Len(SelectSeq(list, LAMBDA x : x = id))

\* The ids active in the ledger map
Active == DOMAIN subscriptions

\* The latest step was a call of op that returned
Did(op) == last.op = op

\* This step is a call of op that returned
Returns(op) == last'.op = op /\ vars' # vars

(***************************************************************************)
(* C1: every active subscription i, with source s and destination d,       *)
(* occurs exactly once in inputs[d] and exactly once in outputs[s].        *)
(***************************************************************************)
C1_ActiveIndexedOnce ==
    \A i \in Active :
        /\ Count(GetOrEmpty(inputs, subscriptions[i].destination), i) = 1
        /\ Count(GetOrEmpty(outputs, subscriptions[i].source), i) = 1

(***************************************************************************)
(* C2: conservation.  Over any step that is not a deposit (wrap_callback), *)
(* clock advances included, the sum over all accounts of the projected     *)
(* balance returned by ft_balance_of stays the same.                       *)
(***************************************************************************)
RECURSIVE TotalProjected(_, _, _, _)
TotalProjected(balances_, self, timestamp, accounts) ==
    IF accounts = {} THEN 0
    ELSE LET a == CHOOSE x \in accounts : TRUE
         IN ft_balance_of(balances_, self, timestamp, a)
            + TotalProjected(balances_, self, timestamp, accounts \ {a})

\* The accrual of a subscription at timestamp, in unbounded integers
Accrual(subscription, timestamp) ==
    (timestamp - subscription.timestamp) * subscription.flow

\* persisted balance plus the accrual of the active ids of list, unbounded
RECURSIVE InboundOf(_, _, _)
InboundOf(list, self, timestamp) ==
    IF list = <<>> THEN 0
    ELSE (IF Head(list) \in DOMAIN self.subscriptions
          THEN Accrual(self.subscriptions[Head(list)], timestamp) ELSE 0)
         + InboundOf(Tail(list), self, timestamp)

\* No product and no sum of a balance query reaches u128::MAX
NoOverflow(balances_, self, timestamp) ==
    \A a \in Accounts :
        GetOrZero(balances_, a)
          + InboundOf(GetOrEmpty(self.inputs, a), self, timestamp) <= U128Max

\* Stated for the steps around which no balance query overflows u128.
C2_Conservation ==
    [][(/\ last'.op # "wrap_callback"
        /\ NoOverflow(balances, ledger, now)
        /\ NoOverflow(balances', ledger', now'))
         => TotalProjected(balances', ledger', now', Accounts)
              = TotalProjected(balances, ledger, now, Accounts)]_vars

(***************************************************************************)
(* C3: settlement creates, destroys and double-counts no value.  For every *)
(* account, ft_balance_of at time t is the same immediately after a        *)
(* successful update_subscription or remove_subscription performed at t as *)
(* immediately before it, when no arithmetic saturates.                    *)
(***************************************************************************)
\* No balance query saturates, at u128::MAX or at zero
NoSaturation(balances_, self, timestamp) ==
    /\ NoOverflow(balances_, self, timestamp)
    /\ \A a \in Accounts :
          InboundOf(GetOrEmpty(self.outputs, a), self, timestamp)
            <= GetOrZero(balances_, a)
                 + InboundOf(GetOrEmpty(self.inputs, a), self, timestamp)

\* The step settles subscription last'.id and nothing in it saturates
SettlesUnsaturated ==
    /\ Returns("update_subscription") \/ Returns("remove_subscription")
    /\ LET subscription == subscriptions[last'.id]
       IN GetOrZero(balances, subscription.destination) + Accrual(subscription, now)
            <= U128Max
    /\ NoSaturation(balances, ledger, now)
    /\ NoSaturation(balances', ledger', now')

C3_SettlementKeepsProjection ==
    [][SettlesUnsaturated
         => \A a \in Accounts :
               ft_balance_of(balances', ledger', now', a)
                 = ft_balance_of(balances, ledger, now, a)]_vars

(***************************************************************************)
(* C4: a successful update_subscription(i, f) at time t returns a record,  *)
(* and leaves stored under id i a record, with last-settled timestamp t,   *)
(* flow f, and the source and destination i had before; for every active   *)
(* id i.                                                                   *)
(***************************************************************************)
C4_UpdateReturnsSettledRecord ==
    [][Returns("update_subscription")
         => LET old == subscriptions[last'.id]
                expected == [source |-> old.source, destination |-> old.destination,
                             flow |-> last'.flow, timestamp |-> now]
            IN /\ last'.ret = expected
               /\ last'.id \in DOMAIN subscriptions'
               /\ subscriptions'[last'.id] = expected]_vars

(***************************************************************************)
(* C5 as claimed: a successful update_subscription(i, f) at time t debits  *)
(* the source's and credits the destination's persisted balance by exactly *)
(* (t - last_settled) * old_flow (saturating product), with last_settled   *)
(* and old_flow as stored for i before the call; no other account's        *)
(* persisted balance changes.                                              *)
(***************************************************************************)
\* Every account but the two named keeps its balance entry as it was
OthersKeep(source, destination) ==
    \A a \in Accounts \ {source, destination} :
        /\ (a \in DOMAIN balances') = (a \in DOMAIN balances)
        /\ GetOrZero(balances', a) = GetOrZero(balances, a)

C5_UpdateMovesExactly ==
    [][Returns("update_subscription")
         => LET old == subscriptions[last'.id]
                amount == SaturatingMul(now - old.timestamp, old.flow)
            IN /\ last'.amount = amount
               /\ balances'[old.source] = balances[old.source] - amount
               /\ balances'[old.destination]
                    = GetOrZero(balances, old.destination) + amount
               /\ OthersKeep(old.source, old.destination)]_vars

(***************************************************************************)
(* C5 as amended: the debit of the source is exactly that amount, and the  *)
(* credit of the destination is that amount added with saturation: the     *)
(* destination's balance is capped at u128::MAX.                           *)
(***************************************************************************)
C5_UpdateMovesSaturating ==
    [][Returns("update_subscription")
         => LET old == subscriptions[last'.id]
                amount == SaturatingMul(now - old.timestamp, old.flow)
            IN /\ last'.amount = amount
               /\ balances'[old.source] = balances[old.source] - amount
               /\ balances'[old.destination]
                    = SaturatingAdd(GetOrZero(balances, old.destination), amount)
               /\ OthersKeep(old.source, old.destination)]_vars

\* An update that moved value while a third account holds a balance
C5_Witness ==
    /\ Did("update_subscription")
    /\ last.amount > 0
    /\ "carol" \in DOMAIN balances

(***************************************************************************)
(* C6: a successful remove_subscription(i) at time t moves exactly         *)
(* (t - t_s) * flow from the source's to the destination's persisted       *)
(* balance, t_s being the time of the most recent settlement of i (its     *)
(* creation or its latest successful update_subscription) and flow its     *)
(* current rate.  The credit is read as the saturating one of C5.          *)
(***************************************************************************)
C6_RemoveMovesSinceLastSettlement ==
    [][Returns("remove_subscription")
         => LET old == subscriptions[last'.id]
                amount == SaturatingMul(now - settled[last'.id], old.flow)
            IN /\ last'.amount = amount
               /\ balances'[old.source] = balances[old.source] - amount
               /\ balances'[old.destination]
                    = SaturatingAdd(GetOrZero(balances, old.destination), amount)]_vars

(***************************************************************************)
(* C7: in every reachable state, ft_balance_of(a) is persisted(a) plus the *)
(* sum of (t - last_settled) * flow over every subscription active in the  *)
(* ledger map whose destination is a, minus the same sum over every active *)
(* subscription whose source is a, in saturating arithmetic.               *)
(***************************************************************************)
\* The sum of the saturating accruals of the subscriptions ids of the ledger map
RECURSIVE AccruedOver(_)
AccruedOver(ids) ==
    IF ids = {} THEN 0
    ELSE LET i == CHOOSE x \in ids : TRUE
         IN SaturatingMul(now - subscriptions[i].timestamp, subscriptions[i].flow)
            + AccruedOver(ids \ {i})

\* The projection computed from the ledger map alone.  Saturating additions
\* followed by saturating subtractions give the same result in any order.
ProjectedFromLedger(a) ==
    LET into == AccruedOver({i \in Active : subscriptions[i].destination = a})
        outof == AccruedOver({i \in Active : subscriptions[i].source = a})
        credited == IF GetOrZero(balances, a) + into > U128Max THEN U128Max
                    ELSE GetOrZero(balances, a) + into
    IN IF credited < outof THEN 0 ELSE credited - outof

C7_ProjectionFromLedger ==
    \A a \in Accounts : ft_balance_of(balances, ledger, now, a) = ProjectedFromLedger(a)

(***************************************************************************)
(* C8: after a successful remove_subscription(i), id i is in no inputs     *)
(* list and in no outputs list, and stays out of them.                     *)
(***************************************************************************)
InSomeList(i) ==
    \E a \in Accounts :
        \/ Count(GetOrEmpty(inputs, a), i) > 0
        \/ Count(GetOrEmpty(outputs, a), i) > 0

C8_RemovedIdLeavesIndexes ==
    Did("remove_subscription") => ~InSomeList(last.id)

(***************************************************************************)
(* C9: after a successful remove_subscription(i), get_subscription(i)      *)
(* fails with not-found and exists(i) is false; an absent id becomes       *)
(* present again only by a create_subscription that allocates it; and      *)
(* remove_subscription of an absent id fails with not-found and writes     *)
(* nothing.                                                                *)
(***************************************************************************)
C9_RemovedStaysNotFound ==
    [][/\ Returns("remove_subscription")
            => /\ ~exists(ledger', last'.id)
               /\ ~get_subscription(ledger', last'.id).ok
               /\ get_subscription(ledger', last'.id).err = "NotPresent"
       /\ \A i \in Ids :
            (~exists(ledger, i) /\ exists(ledger', i))
               => (last'.op = "create_subscription" /\ last'.id = i)
       /\ \A i \in Ids, signer \in Accounts :
            ~exists(ledger', i)
               => LET r == remove_subscription(balances', ledger', now', signer, i)
                  IN /\ ~r.ok
                     /\ r.err = "NotPresent"
                     /\ r.balances = balances'
                     /\ r.self = ledger']_vars

\* A subscription was just removed while another remains active, and removing
\* it once more fails with not-found
C9_Witness ==
    /\ Did("remove_subscription")
    /\ ~exists(ledger, last.id)
    /\ Active # {}
    /\ remove_subscription(balances, ledger, now, last.signer, last.id).err = "NotPresent"

(***************************************************************************)
(* C10: for every account a, subscriptions_for_account(a) holds no id      *)
(* twice and is as long as the number of active subscriptions that have a  *)
(* as source or as destination.                                            *)
(***************************************************************************)
C10_ListMatchesActive ==
    \A a \in Accounts :
        LET list == subscriptions_for_account(ledger, a)
        IN /\ \A k \in 1..Len(list) : Count(list, list[k]) = 1
           /\ Len(list) = Cardinality({i \in Active :
                                          \/ subscriptions[i].source = a
                                          \/ subscriptions[i].destination = a})

(***************************************************************************)
(* C11: remove_subscription(i) changes the index lists only by deleting i: *)
(* in every inputs and outputs list of every account the ids other than i  *)
(* are the same after the call as before, in the same order.               *)
(***************************************************************************)
\* list without the occurrences of id
Without(list, id) == SelectSeq(list, LAMBDA x : x # id)

C11_RemoveKeepsOtherIds ==
    [][Returns("remove_subscription")
         => \A a \in Accounts :
               /\ Without(GetOrEmpty(inputs', a), last'.id)
                    = Without(GetOrEmpty(inputs, a), last'.id)
               /\ Without(GetOrEmpty(outputs', a), last'.id)
                    = Without(GetOrEmpty(outputs, a), last'.id)]_vars

(***************************************************************************)
(* C12: a successful create_subscription(s, d, r) at time t returns the    *)
(* record {source s, destination d, flow r, last-settled t}; the newly     *)
(* allocated id is listed by subscriptions_for_account(s), and             *)
(* get_subscription on that id in the resulting state returns an identical *)
(* record.                                                                 *)
(***************************************************************************)
C12_CreateThenGet ==
    [][\A signer \in Accounts, source \in Accounts, destination \in Accounts,
          rate \in Flows :
          (CreateSubscription(signer, source, destination, rate) /\ vars' # vars)
            => /\ last'.ret = [source |-> source, destination |-> destination,
                               flow |-> rate, timestamp |-> now]
               /\ Count(subscriptions_for_account(ledger', source), last'.id) >= 1
               /\ get_subscription(ledger', last'.id).ok
               /\ get_subscription(ledger', last'.id).ret = last'.ret]_vars

\* a second subscription was created at a later time than the first
C12_Witness ==
    /\ Did("create_subscription")
    /\ last.id = 2
    /\ last.ret.timestamp > 0
    /\ get_subscription(ledger, 2).ret = last.ret

(***************************************************************************)
(* C13: create_subscription moves no value: it leaves every persisted      *)
(* balance unchanged, and for an account whose active subscriptions were   *)
(* all created at the current instant, ft_balance_of at that instant       *)
(* equals the persisted balance exactly.                                   *)
(***************************************************************************)
\* the active subscriptions that account_id is the source or destination of
ActiveOf(account_id) ==
    {i \in Active : account_id \in {subscriptions[i].source,
                                    subscriptions[i].destination}}

\* Every active subscription of account_id was created at the current time
AllCreatedNow(account_id) == \A i \in ActiveOf(account_id) : created[i] = now

C13_CreateMovesNoValue ==
    [][/\ Returns("create_subscription") => balances' = balances
       /\ \A a \in Accounts :
             AllCreatedNow(a)'
               => ft_balance_of(balances', ledger', now', a) = GetOrZero(balances', a)]_vars

(***************************************************************************)
(* C14: create_subscription with rate 0, with source = destination, or     *)
(* with a signer other than source fails, and leaves the ledger map, the   *)
(* id counter, both index maps and all balances unchanged.                 *)
(***************************************************************************)
\* What create_subscription does in the current state
CreateCall(signer, source, destination, rate) ==
    create_subscription(balances, ledger, reserve, now, signer, source, destination, rate)

\* r is a call that failed and wrote nothing
Rejected(r) == ~r.ok /\ r.balances = balances /\ r.self = ledger

C14_InvalidCreateRejected ==
    \A signer \in Accounts, source \in Accounts, destination \in Accounts,
       rate \in Flows :
       (rate = 0 \/ source = destination \/ signer # source)
         => Rejected(CreateCall(signer, source, destination, rate))

\* alice could create a subscription here, and each invalid variant of her
\* call is rejected for its own reason
C14_Witness ==
    /\ Active # {}
    /\ CreateCall("alice", "alice", "bob", 1).ok
    /\ CreateCall("alice", "alice", "bob", 0).err = "rate needs to be greater than zero"
    /\ CreateCall("alice", "alice", "alice", 1).err = "source must not be destination"
    /\ CreateCall("bob", "alice", "bob", 1).err = "signer must be source"

(***************************************************************************)
(* C15: create_subscription(s, d, r) succeeds only if the persisted        *)
(* balance of s strictly exceeds r * reserve; when the balance is at most  *)
(* r * reserve, or s has no balance entry, the call is rejected and no     *)
(* state changes.                                                          *)
(***************************************************************************)
C15_ReserveRequired ==
    \A signer \in Accounts, source \in Accounts, destination \in Accounts,
       rate \in Flows :
       LET r == CreateCall(signer, source, destination, rate)
           covered == /\ source \in DOMAIN balances
                      /\ balances[source] > rate * reserve
       IN /\ r.ok => covered
          /\ ~covered => Rejected(r)

\* alice holds exactly rate * reserve and is refused; carol has no balance
\* entry and is refused
C15_Witness ==
    /\ "alice" \in DOMAIN balances
    /\ balances["alice"] = 2 * reserve
    /\ CreateCall("alice", "alice", "bob", 2).err = "sufficient reserve is required"
    /\ CreateCall("alice", "alice", "bob", 1).ok
    /\ "carol" \notin DOMAIN balances
    /\ CreateCall("carol", "carol", "bob", 1).err = "that source has balance"

(***************************************************************************)
(* C16: settlement fails closed.  If at update_subscription(i, f) or       *)
(* remove_subscription(i) the source's persisted balance is smaller than   *)
(* the accrued amount, or the source has no balance entry, the call fails  *)
(* and nothing changes: records, index lists and balances are as before.   *)
(***************************************************************************)
\* What update_subscription and remove_subscription do in the current state
UpdateCall(subscription_index_, new_flow) ==
    update_subscription(balances, ledger, now, subscription_index_, new_flow)

RemoveCall(signer, subscription_index_) ==
    remove_subscription(balances, ledger, now, signer, subscription_index_)

\* The source of the active subscription i cannot pay what i has accrued
Underfunded(i) ==
    \/ subscriptions[i].source \notin DOMAIN balances
    \/ balances[subscriptions[i].source] < SettleAmount(subscriptions[i], now)

C16_SettlementFailsClosed ==
    \A i \in Active :
       Underfunded(i)
         => /\ \A new_flow \in Flows : Rejected(UpdateCall(i, new_flow))
            /\ \A signer \in Accounts : Rejected(RemoveCall(signer, i))

\* an underfunded subscription whose update and removal by its source are
\* refused by the transfer
C16_Witness ==
    \E i \in Active :
       /\ Underfunded(i)
       /\ \E new_flow \in Flows : UpdateCall(i, new_flow).err = "insufficient balance"
       /\ RemoveCall(subscriptions[i].source, i).err = "transfer on settlement"

(***************************************************************************)
(* C17: update_subscription(i, f) with f equal to the current flow of i is *)
(* rejected and leaves all state unchanged: no persisted balance moves and *)
(* the record keeps its flow and last-settled time, although the transfer  *)
(* of the settled amount runs before the flow is compared.                 *)
(***************************************************************************)
C17_SameFlowRejected ==
    \A i \in Active : Rejected(UpdateCall(i, subscriptions[i].flow))

\* a funded subscription with a positive accrued amount: the transfer inside
\* the call changes the balances, and the call is then refused as InvalidFlow
C17_Witness ==
    \E i \in Active :
       /\ ~Underfunded(i)
       /\ try_transfer(balances, subscriptions[i].source, subscriptions[i].destination,
                       SettleAmount(subscriptions[i], now)).balances # balances
       /\ UpdateCall(i, subscriptions[i].flow).err = "InvalidFlow"

(***************************************************************************)
(* C18: remove_subscription(i) succeeds only when the signer is the source *)
(* or the destination of subscription i; a call by any other signer fails  *)
(* and leaves the ledger map, the index maps and all balances unchanged.   *)
(***************************************************************************)
\* signer is the source or the destination of the active subscription i
PartyOf(signer, i) ==
    signer \in {subscriptions[i].source, subscriptions[i].destination}

C18_RemoveBySourceOrDestination ==
    \A i \in Active, signer \in Accounts :
       LET r == RemoveCall(signer, i)
       IN /\ r.ok => PartyOf(signer, i)
          /\ ~PartyOf(signer, i) => Rejected(r)

\* a subscription that its source can remove and a third account cannot
C18_Witness ==
    \E i \in Active, signer \in Accounts :
       /\ ~PartyOf(signer, i)
       /\ RemoveCall(subscriptions[i].source, i).ok
       /\ RemoveCall(signer, i).err = "signer must be source or destination"

(***************************************************************************)
(* C19: in every reachable state every subscription stored in the ledger   *)
(* map has flow > 0 and a source different from its destination, also      *)
(* after an update_subscription; its last-settled timestamp never          *)
(* decreases and never exceeds the current time.                           *)
(***************************************************************************)
C19_StoredSubscriptionsValid ==
    [][\A i \in Active' :
          /\ subscriptions'[i].flow > 0
          /\ subscriptions'[i].source # subscriptions'[i].destination
          /\ subscriptions'[i].timestamp <= now'
          /\ i \in Active => subscriptions'[i].timestamp >= subscriptions[i].timestamp]_vars

(***************************************************************************)
(* C20: ft_balance_of is side-effect-free and deterministic: it changes no *)
(* persisted balance, subscription record, index list or counter; a second *)
(* call for the same account at the same time returns the same value; and  *)
(* a balance query before an update_subscription or remove_subscription    *)
(* does not change what that call settles.                                 *)
(***************************************************************************)
C20_QueryHasNoEffect ==
    [][Returns("ft_balance_of")
         => /\ UNCHANGED state
            /\ last'.amount = ft_balance_of(balances, ledger, now, last'.signer)
            /\ ft_balance_of_view(balances', ledger', now', last'.signer).amount
                 = last'.amount
            /\ \A i \in Ids :
                  /\ \A new_flow \in Flows :
                        update_subscription(balances', ledger', now', i, new_flow)
                          = update_subscription(balances, ledger, now, i, new_flow)
                  /\ \A signer \in Accounts :
                        remove_subscription(balances', ledger', now', signer, i)
                          = remove_subscription(balances, ledger, now, signer, i)]_vars

\* a query of an account with an active subscription that has accrued value:
\* the value returned differs from the persisted balance
C20_Witness ==
    /\ Did("ft_balance_of")
    /\ ActiveOf(last.signer) # {}
    /\ last.amount # GetOrZero(balances, last.signer)
    /\ \E i \in ActiveOf(last.signer) :
          /\ SettleAmount(subscriptions[i], now) > 0
          /\ UpdateCall(i, 0).ok

(***************************************************************************)
(* C21: set_owner, set_treasurer and update_reserve take effect only when  *)
(* the signer is the current owner; set_owner needs a new owner other than *)
(* the current one and set_treasurer a new treasurer other than the        *)
(* current one; a rejected call leaves owner, treasurer and reserve as     *)
(* they are; after a successful set_owner(n) the previous owner is         *)
(* rejected and n is accepted.                                             *)
(***************************************************************************)
\* In the current state each configuration call is accepted exactly when its
\* conditions hold, and a refused one hands back the stored value
OwnerGate ==
    \A signer \in Accounts :
       /\ \A new_owner \in Accounts :
             LET r == set_owner(owner, signer, new_owner)
             IN /\ r.ok <=> (signer = owner /\ new_owner # owner)
                /\ ~r.ok => r.owner = owner
       /\ \A new_treasurer \in Accounts :
             LET r == set_treasurer(owner, treasurer, signer, new_treasurer)
             IN /\ r.ok <=> (signer = owner /\ new_treasurer # treasurer)
                /\ ~r.ok => r.treasurer = treasurer
       /\ \A reserve_ \in Reserves :
             LET r == update_reserve(owner, reserve, signer, reserve_)
             IN /\ r.ok <=> signer = owner
                /\ ~r.ok => r.reserve = reserve

C21_OwnerGated ==
    [][/\ OwnerGate
       /\ OwnerGate'
       /\ owner' # owner => Returns("set_owner")
       /\ treasurer' # treasurer => Returns("set_treasurer")
       /\ reserve' # reserve => Returns("update_reserve")
       /\ Returns("set_owner") \/ Returns("set_treasurer") \/ Returns("update_reserve")
            => last'.signer = owner
       /\ \A signer \in Accounts, n \in Accounts :
             (SetOwner(signer, n) /\ vars' # vars)
               => /\ owner' = n
                  /\ n # owner
                  /\ \A a \in Accounts, reserve_ \in Reserves :
                        /\ ~set_owner(owner', owner, a).ok
                        /\ ~set_treasurer(owner', treasurer', owner, a).ok
                        /\ ~update_reserve(owner', reserve', owner, reserve_).ok
                        /\ update_reserve(owner', reserve', n, reserve_).ok
                        /\ a # n => set_owner(owner', n, a).ok
                        /\ a # treasurer' => set_treasurer(owner', treasurer', n, a).ok]_vars

\* the ownership has passed from alice to another account, which then set a
\* treasurer other than itself and alice
C21_Witness ==
    /\ Did("set_treasurer")
    /\ owner # "alice"
    /\ last.signer = owner
    /\ treasurer \notin {owner, "alice"}
    /\ ~set_owner(owner, "alice", "alice").ok
    /\ set_owner(owner, owner, "alice").ok

(***************************************************************************)
(* C22: update_subscription(i, f) writes only the record of subscription   *)
(* i: under every other id the same record, or none, is stored after the   *)
(* call as before, and both index maps are unchanged.                      *)
(***************************************************************************)
C22_UpdateWritesOnlyItsRecord ==
    [][Returns("update_subscription")
         => /\ \A j \in Ids \ {last'.id} :
                  /\ j \in Active' <=> j \in Active
                  /\ j \in Active => subscriptions'[j] = subscriptions[j]
            /\ inputs' = inputs
            /\ outputs' = outputs]_vars

(***************************************************************************)
(* C23: ids come from the wrapping increment of one counter that starts at *)
(* 0: the k-th successful create_subscription gets id k (modulo 2^64);     *)
(* failed creates, updates, removals and queries leave the counter as it   *)
(* is; before the counter wraps no create reuses the id of an active or    *)
(* removed subscription or overwrites an existing record.                  *)
(***************************************************************************)
\* No failed call and no query moves the counter in this state
CounterKept ==
    /\ \A signer \in Accounts, source \in Accounts, destination \in Accounts,
          rate \in Flows :
          LET r == CreateCall(signer, source, destination, rate)
          IN ~r.ok => r.self.subscription_index = subscription_index
    /\ \A i \in 0..MaxCreates :
          /\ \A new_flow \in Flows :
                LET r == UpdateCall(i, new_flow)
                IN ~r.ok => r.self.subscription_index = subscription_index
          /\ \A signer \in Accounts :
                LET r == RemoveCall(signer, i)
                IN ~r.ok => r.self.subscription_index = subscription_index
    /\ \A account_id \in Accounts :
          ft_balance_of_view(balances, ledger, now, account_id).self.subscription_index
            = subscription_index

\* create on a ledger whose counter is c allocates c + 1 modulo 2^64
WrappingAllocation ==
    \A c \in 0..(U64Modulus - 1) :
       create([ledger EXCEPT !.subscription_index = c],
              "alice", "bob", 1, now).self.subscription_index = (c + 1) % U64Modulus

\* After k creates have returned the counter is k, the ids 1..k are the ones
\* ever allocated (each create took a fresh one), and the latest create got k.
\* Successful updates, removals and queries do not count as creates, so the
\* counter stays with them.
C23_IdsFromCounter ==
    /\ subscription_index = creates % U64Modulus
    /\ DOMAIN created = 1..creates
    /\ Active \subseteq DOMAIN created
    /\ Did("create_subscription")
         => /\ last.id = creates % U64Modulus
            /\ last.id \in Active
            /\ subscriptions[last.id] = last.ret
    /\ CounterKept
    /\ WrappingAllocation

\* the second create comes after the first subscription was removed and
\* gets id 2
C23_Witness ==
    /\ Did("create_subscription")
    /\ creates = 2
    /\ last.id = 2
    /\ 1 \notin Active

(***************************************************************************)
(* C24: update_subscription(i, f) changes state (moves persisted balance   *)
(* or alters the flow of a subscription) only when the signer is the       *)
(* source or the destination of subscription i; a call by an account that  *)
(* is no party of the subscription has no effect.                          *)
(***************************************************************************)
C24_UpdateByPartyOnly ==
    [][\A signer \in Accounts, i \in Ids, new_flow \in Flows :
          (UpdateSubscription(signer, i, new_flow) /\ i \in Active /\ ~PartyOf(signer, i))
            => /\ balances' = balances
               /\ subscriptions' = subscriptions]_vars

====
